---- MODULE Spec2Model ----
(***************************************************************************)
(* Model of deal_qa_validator.py: a spreadsheet of deals is loaded, one    *)
(* GET request is issued per row that has an identifier, the fetched       *)
(* record is compared field by field with the row, and a report is         *)
(* written.                                                                *)
(*                                                                         *)
(* Python strings are sequences of one-character strings, so that          *)
(* strip(), lower(), startswith(), `in` and split() are computed.          *)
(***************************************************************************)
EXTENDS Integers, Sequences, FiniteSets, TLC

VARIABLES
    pc,          \* where main() is: "start", "loop", "awaiting", "done", "exit1", "crashed"
    excel_file,  \* the input file: whether it can be read, its header cells, its data cells
    columns,     \* df.columns after line 138
    rows,        \* the rows of df, each a mapping from column name to cell
    idx,         \* index of the row the loop of line 147 is at
    results,     \* the list `results` of line 135
    fetched,     \* what requests.get produced for each row a request was issued for
    requests,    \* the identifiers of the GET requests issued so far, in order
    inFlight,    \* number of GET requests issued and not yet completed
    report,      \* the written output file, or NoReport
    exitCode,    \* process exit status, -1 while running
    padYear,     \* whether the platform's strftime zero-pads %Y to four digits
    auth_token,  \* the --auth-token argument of the header under study
    header,      \* headers["Authorization"] as sent, <<>> before it is built
    date_obj,    \* the argument of normalize_date under study
    normalized,  \* its result, Unset before the call
    vrow,        \* the row given to validate_deal under study
    api_data,    \* the remote record given to validate_deal under study
    discrepancies \* its result, Unset before the call

vars == <<pc, excel_file, columns, rows, idx, results, fetched, requests, inFlight,
          report, exitCode, padYear, auth_token, header, date_obj, normalized,
          vrow, api_data, discrepancies>>

mainVars == <<pc, excel_file, columns, rows, idx, results, fetched, requests,
              inFlight, report, exitCode>>
authVars == <<auth_token, header>>
dateVars == <<date_obj, normalized>>
validateVars == <<vrow, api_data, discrepancies>>

(***************************************************************************)
(* Bounds of the model.                                                    *)
(***************************************************************************)
MaxRows == 2
MaxTokenChunks == 3
MaxDateChunks == 3

(***************************************************************************)
(* Text: Python str as a sequence of characters.                           *)
(***************************************************************************)
RECURSIVE Concat(_)
Concat(ss) == IF ss = <<>> THEN <<>> ELSE Head(ss) \o Concat(Tail(ss))

UpperChars == <<"A","B","C","D","E","F","G","H","I","J","K","L","M",
                "N","O","P","Q","R","S","T","U","V","W","X","Y","Z">>
LowerChars == <<"a","b","c","d","e","f","g","h","i","j","k","l","m",
                "n","o","p","q","r","s","t","u","v","w","x","y","z">>

LowerCh(c) ==
    IF \E i \in 1..26 : UpperChars[i] = c
    THEN LowerChars[CHOOSE i \in 1..26 : UpperChars[i] = c]
    ELSE c

\* str.lower()
Lower(s) == [i \in 1..Len(s) |-> LowerCh(s[i])]

\* str.startswith(p)
StartsWith(s, p) == Len(s) >= Len(p) /\ SubSeq(s, 1, Len(p)) = p

\* c in s, for a one-character c
HasChar(s, c) == \E i \in 1..Len(s) : s[i] = c

\* s.split(c)[0]: the part before the first c, the whole of s without c
SplitFirst(s, c) ==
    IF HasChar(s, c)
    THEN SubSeq(s, 1, (CHOOSE i \in 1..Len(s) :
                          s[i] = c /\ \A j \in 1..(i-1) : s[j] # c) - 1)
    ELSE s

IsSpaceCh(c) == c \in {" ", "\t", "\n"}

\* str.strip()
Strip(s) ==
    IF \A i \in 1..Len(s) : IsSpaceCh(s[i])
    THEN <<>>
    ELSE LET first == CHOOSE i \in 1..Len(s) :
                        ~IsSpaceCh(s[i]) /\ \A j \in 1..(i-1) : IsSpaceCh(s[j])
             last == CHOOSE i \in 1..Len(s) :
                        ~IsSpaceCh(s[i]) /\ \A j \in (i+1)..Len(s) : IsSpaceCh(s[j])
         IN SubSeq(s, first, last)

\* sep.join(parts)
RECURSIVE Join(_, _)
Join(sep, parts) ==
    IF parts = <<>> THEN <<>>
    ELSE IF Len(parts) = 1 THEN parts[1]
    ELSE parts[1] \o sep \o Join(sep, Tail(parts))

DigitChars == <<"0","1","2","3","4","5","6","7","8","9">>
IsDigit(c) == \E i \in 1..10 : DigitChars[i] = c
DigitVal(c) == (CHOOSE i \in 1..10 : DigitChars[i] = c) - 1

\* str(n) for a natural number n
RECURSIVE IntText(_)
IntText(n) ==
    IF n < 10 THEN <<DigitChars[n + 1]>>
    ELSE IntText(n \div 10) \o <<DigitChars[(n % 10) + 1]>>

\* n formatted in at least w digits, zero-padded on the left
RECURSIVE ZeroPad(_, _)
ZeroPad(t, w) == IF Len(t) >= w THEN t ELSE ZeroPad(<<"0">> \o t, w)

AllDigits(s) == \A i \in 1..Len(s) : IsDigit(s[i])

RECURSIVE TextVal(_)
TextVal(s) ==
    IF s = <<>> THEN 0
    ELSE 10 * TextVal(SubSeq(s, 1, Len(s) - 1)) + DigitVal(s[Len(s)])

(***************************************************************************)
(* Values: the scalars a spreadsheet cell or a JSON field can hold.        *)
(*   "nan"   a missing cell (NaN / NaT)                                    *)
(*   "none"  None: an absent key, or JSON null                             *)
(*   "str"   a string, s its text                                          *)
(*   "int"   an integer n;  "float" the float n.0;  "bool" n = 1 for True  *)
(*   "ts"    a pandas Timestamp at midnight of the date n = yyyymmdd       *)
(***************************************************************************)
NaN == [k |-> "nan", s |-> <<>>, n |-> 0]
None == [k |-> "none", s |-> <<>>, n |-> 0]
StrV(t) == [k |-> "str", s |-> t, n |-> 0]
IntV(i) == [k |-> "int", s |-> <<>>, n |-> i]
FloatV(i) == [k |-> "float", s |-> <<>>, n |-> i]
BoolV(b) == [k |-> "bool", s |-> <<>>, n |-> IF b THEN 1 ELSE 0]
TsV(d) == [k |-> "ts", s |-> <<>>, n |-> d]

Unset == [k |-> "unset", s |-> <<>>, n |-> 0]

\* pd.isna / pd.notnull on a scalar
isna(v) == v.k \in {"nan", "none"}
notnull(v) == ~isna(v)

YearOf(d) == d \div 10000
MonthOf(d) == (d \div 100) % 100
DayOf(d) == d % 100

\* strftime('%Y-%m-%d'); %Y is not zero-padded where the C library does not pad it
strftime(d) ==
    (IF padYear THEN ZeroPad(IntText(YearOf(d)), 4) ELSE IntText(YearOf(d)))
    \o <<"-">> \o ZeroPad(IntText(MonthOf(d)), 2)
    \o <<"-">> \o ZeroPad(IntText(DayOf(d)), 2)

\* str(v)
str(v) ==
    CASE v.k = "str" -> v.s
      [] v.k = "int" -> IntText(v.n)
      [] v.k = "float" -> IntText(v.n) \o <<".", "0">>
      [] v.k = "bool" -> IF v.n = 1 THEN <<"T","r","u","e">> ELSE <<"F","a","l","s","e">>
      [] v.k = "ts" -> ZeroPad(IntText(YearOf(v.n)), 4)
                       \o <<"-">> \o ZeroPad(IntText(MonthOf(v.n)), 2)
                       \o <<"-">> \o ZeroPad(IntText(DayOf(v.n)), 2)
                       \o <<" ","0","0",":","0","0",":","0","0">>
      [] v.k = "none" -> <<"N","o","n","e">>
      [] v.k = "nan" -> <<"n","a","n">>

IsLeap(y) == (y % 4 = 0 /\ y % 100 # 0) \/ y % 400 = 0
DaysIn(y, m) ==
    IF m = 2 THEN (IF IsLeap(y) THEN 29 ELSE 28)
    ELSE IF m \in {4, 6, 9, 11} THEN 30 ELSE 31

\* the time part datetime.fromisoformat accepts after the separator: HH, HH:MM, HH:MM:SS
IsoTime(t) ==
    /\ Len(t) \in {2, 5, 8}
    /\ AllDigits(SubSeq(t, 1, 2)) /\ TextVal(SubSeq(t, 1, 2)) < 24
    /\ Len(t) >= 5 => /\ t[3] = ":"
                      /\ AllDigits(SubSeq(t, 4, 5))
                      /\ TextVal(SubSeq(t, 4, 5)) < 60
    /\ Len(t) = 8 => /\ t[6] = ":"
                     /\ AllDigits(SubSeq(t, 7, 8))
                     /\ TextVal(SubSeq(t, 7, 8)) < 60

\* datetime.fromisoformat(s): the date yyyymmdd it parses, 0 where it raises ValueError
fromisoformat(s) ==
    IF /\ Len(s) >= 10
       /\ AllDigits(SubSeq(s, 1, 4)) /\ s[5] = "-"
       /\ AllDigits(SubSeq(s, 6, 7)) /\ s[8] = "-"
       /\ AllDigits(SubSeq(s, 9, 10))
       /\ TextVal(SubSeq(s, 1, 4)) >= 1
       /\ TextVal(SubSeq(s, 6, 7)) \in 1..12
       /\ TextVal(SubSeq(s, 9, 10)) \in
              1..DaysIn(TextVal(SubSeq(s, 1, 4)), TextVal(SubSeq(s, 6, 7)))
       /\ Len(s) > 10 => (Len(s) >= 13 /\ IsoTime(SubSeq(s, 12, Len(s))))
    THEN TextVal(SubSeq(s, 1, 4)) * 10000
         + TextVal(SubSeq(s, 6, 7)) * 100 + TextVal(SubSeq(s, 9, 10))
    ELSE 0

\* normalize_date, lines 11-29: None for a missing value, else a string
normalize_date(v) ==
    IF isna(v) THEN None
    ELSE IF v.k = "str"
         THEN IF HasChar(v.s, "T") THEN StrV(SplitFirst(v.s, "T"))
              ELSE IF HasChar(v.s, " ") THEN StrV(SplitFirst(v.s, " "))
              ELSE IF fromisoformat(v.s) # 0 THEN StrV(strftime(fromisoformat(v.s)))
              ELSE StrV(str(v))
         ELSE IF v.k = "ts" THEN StrV(strftime(v.n))
         ELSE StrV(str(v))

(***************************************************************************)
(* get_deal_details: the Authorization header.                             *)
(***************************************************************************)
BearerPrefix == <<"B","e","a","r","e","r"," ">>
bearer_lower == <<"b","e","a","r","e","r"," ">>

\* a faulty variant of lines 36-46: the test of line 45 without .lower()
AuthorizationHeaderCaseSensitive(token) ==
    IF ~StartsWith(token, BearerPrefix) THEN BearerPrefix \o token ELSE token

\* headers["Authorization"] after lines 36-46
AuthorizationHeader(token) ==
    IF ~StartsWith(Lower(token), bearer_lower) THEN BearerPrefix \o token ELSE token

\* the credentials tried: up to MaxTokenChunks pieces, from prefixes in three
\* casings, the bare word, a space and an opaque token
TokenChunks ==
    { BearerPrefix, bearer_lower, <<"B","E","A","R","E","R"," ">>,
      <<"B","e","a","r","e","r">>, <<" ">>, <<"t","0","k">> }

ChunkSeqs(chunks, max) == UNION { [1..k -> chunks] : k \in 0..max }

Tokens == { Concat(cs) : cs \in ChunkSeqs(TokenChunks, MaxTokenChunks) }

NoReport == [written |-> FALSE, columns |-> <<>>, rows |-> <<>>]
NoFile == [readable |-> FALSE, header |-> <<>>, data |-> <<>>]

IdleMain ==
    /\ pc = "idle" /\ excel_file = NoFile /\ columns = <<>> /\ rows = <<>>
    /\ idx = 0 /\ results = <<>> /\ fetched = <<>> /\ requests = <<>>
    /\ inFlight = 0 /\ report = NoReport /\ exitCode = -1
IdleAuth == auth_token = <<>> /\ header = <<>>
IdleDate == date_obj = Unset /\ normalized = Unset
IdleValidate == vrow = <<>> /\ api_data = <<>> /\ discrepancies = [done |-> FALSE, list |-> <<>>]

InitAuth ==
    /\ IdleMain /\ IdleDate /\ IdleValidate /\ padYear = TRUE
    /\ auth_token \in Tokens
    /\ header = <<>>

\* get_deal_details builds the header (lines 36-46)
BuildHeader ==
    /\ header = <<>>
    /\ header' = AuthorizationHeader(auth_token)
    /\ UNCHANGED <<mainVars, padYear, auth_token, dateVars, validateVars>>

NextAuth == BuildHeader
SpecAuth == InitAuth /\ [][NextAuth]_vars

(***************************************************************************)
(* normalize_date on its own.                                              *)
(***************************************************************************)
D_2019_03_22 == <<"2","0","1","9","-","0","3","-","2","2">>
D_2026_02_01 == <<"2","0","2","6","-","0","2","-","0","1">>
D_0099_01_01 == <<"0","0","9","9","-","0","1","-","0","1">>
D_2019_02_30 == <<"2","0","1","9","-","0","2","-","3","0">>
T_09_31_18Z == <<"0","9",":","3","1",":","1","8","Z">>
T_00_00_00 == <<"0","0",":","0","0",":","0","0">>
T_00_00_00_UTC == T_00_00_00 \o <<" ","U","T","C">>

DateChunks ==
    { D_2019_03_22, D_2026_02_01, D_0099_01_01, D_2019_02_30,
      T_09_31_18Z, T_00_00_00, T_00_00_00_UTC, <<"_","0","9">>, <<"T">>, <<" ">> }

DateTexts == { Concat(cs) : cs \in ChunkSeqs(DateChunks, MaxDateChunks) }

DateInputs ==
    { StrV(t) : t \in DateTexts }
    \cup { NaN, None, TsV(20260201), TsV(20190322), IntV(50), FloatV(50), BoolV(TRUE) }

InitDate ==
    /\ IdleMain /\ IdleAuth /\ IdleValidate
    /\ padYear \in BOOLEAN
    /\ date_obj \in DateInputs
    /\ normalized = Unset

\* one call of normalize_date (lines 11-29)
NormalizeDate ==
    /\ normalized = Unset
    /\ normalized' = normalize_date(date_obj)
    /\ UNCHANGED <<mainVars, padYear, authVars, date_obj, validateVars>>

NextDate == NormalizeDate
SpecDate == InitDate /\ [][NextDate]_vars

(***************************************************************************)
(* validate_deal.                                                          *)
(***************************************************************************)
DealNameCol == <<"D","e","a","l"," ","N","a","m","e">>
CpmCol == <<"C","P","M"," ","(","I","N","R",")">>
StartDateCol == <<"S","t","a","r","t"," ","D","a","t","e"," ","(","M","M","-","D","D","-","Y","Y",")">>
EndDateCol == <<"E","n","d"," ","d","a","t","e"," ","(","M","M","-","D","D","-","Y","Y",")">>
BudgetCol == <<"B","u","d","g","e","t"," ","(","I","N","R",")">>

\* the list `checks` of lines 64-83
checks ==
    << [excel_col |-> DealNameCol, api_field |-> "name",
        label |-> <<"D","e","a","l"," ","N","a","m","e">>, is_date |-> FALSE],
       [excel_col |-> CpmCol, api_field |-> "cpm",
        label |-> <<"C","P","M">>, is_date |-> FALSE],
       [excel_col |-> StartDateCol, api_field |-> "startDate",
        label |-> <<"S","t","a","r","t"," ","D","a","t","e">>, is_date |-> TRUE],
       [excel_col |-> EndDateCol, api_field |-> "endDate",
        label |-> <<"E","n","d"," ","D","a","t","e">>, is_date |-> TRUE],
       [excel_col |-> BudgetCol, api_field |-> "budget",
        label |-> <<"B","u","d","g","e","t">>, is_date |-> FALSE] >>

\* row.get(name) / api_data.get(name): None for an absent key
Get(mapping, name) == IF name \in DOMAIN mapping THEN mapping[name] ELSE None

\* the f-string of line 99
Discrepancy(label, str_excel, str_api) ==
    label \o <<":"," ","E","x","p","e","c","t","e","d"," ","'">> \o str_excel \o <<"'",","," ","F","o","u","n","d"," ","'">> \o str_api \o <<"'">>

\* a faulty variant of lines 86-99: line 96 converting None by str()
CheckFieldNoneAsText(row, api, check) ==
    LET excel_val == IF check.is_date THEN normalize_date(Get(row, check.excel_col))
                     ELSE Get(row, check.excel_col)
        api_val == IF check.is_date THEN normalize_date(Get(api, check.api_field))
                   ELSE Get(api, check.api_field)
        str_excel == IF notnull(excel_val) THEN str(excel_val) ELSE <<>>
        str_api == str(api_val)
    IN  IF str_excel # str_api
        THEN << Discrepancy(check.label, str_excel, str_api) >>
        ELSE <<>>

\* one pass of the loop body, lines 86-99: the discrepancies it appends
CheckField(row, api, check) ==
    LET excel_val == IF check.is_date THEN normalize_date(Get(row, check.excel_col))
                     ELSE Get(row, check.excel_col)
        api_val == IF check.is_date THEN normalize_date(Get(api, check.api_field))
                   ELSE Get(api, check.api_field)
        str_excel == IF notnull(excel_val) THEN str(excel_val) ELSE <<>>
        str_api == IF api_val # None THEN str(api_val) ELSE <<>>
    IN  IF str_excel # str_api
        THEN << Discrepancy(check.label, str_excel, str_api) >>
        ELSE <<>>

\* validate_deal(row, api_data), lines 56-101
validate_deal(row, api) ==
    Concat([i \in 1..Len(checks) |-> CheckField(row, api, checks[i])])

\* a mapping from the choices made for each key; Unset marks a key left out
MappingOf(choice) ==
    [name \in {n \in DOMAIN choice : choice[n] # Unset} |-> choice[name]]

Z_2026_02_01 == D_2026_02_01 \o <<"T">> \o T_00_00_00 \o <<"Z">>
Z_2019_03_22 == D_2019_03_22 \o <<"T">> \o T_09_31_18Z

RowChoices ==
    { c \in [{DealNameCol, CpmCol, StartDateCol, EndDateCol, BudgetCol} ->
                {Unset, NaN, StrV(<<"A">>), IntV(50), FloatV(50), IntV(1000),
                 TsV(20260201), StrV(D_2026_02_01 \o <<" ">> \o T_00_00_00),
                 StrV(D_2019_03_22)}] :
        /\ c[DealNameCol] \in {NaN, StrV(<<"A">>)}
        /\ c[CpmCol] \in {NaN, IntV(50), FloatV(50)}
        /\ c[StartDateCol] \in
              {NaN, TsV(20260201), StrV(D_2026_02_01 \o <<" ">> \o T_00_00_00)}
        /\ c[EndDateCol] \in {Unset, StrV(D_2019_03_22)}
        /\ c[BudgetCol] \in {Unset, NaN, IntV(1000)} }

RemoteChoices ==
    { c \in [{"name", "cpm", "startDate", "endDate", "budget"} ->
                {Unset, None, StrV(<<>>), StrV(<<"A">>), StrV(<<"B">>), IntV(50),
                 IntV(55), IntV(1000), StrV(Z_2026_02_01),
                 StrV(<<"2","0","2","6","-","0","2","-","0","2">>),
                 StrV(Z_2019_03_22)}] :
        /\ c["name"] \in {Unset, None, StrV(<<>>), StrV(<<"A">>), StrV(<<"B">>)}
        /\ c["cpm"] \in {Unset, IntV(50), IntV(55)}
        /\ c["startDate"] \in
              {Unset, StrV(<<>>), StrV(Z_2026_02_01),
               StrV(<<"2","0","2","6","-","0","2","-","0","2">>)}
        /\ c["endDate"] \in {None, StrV(Z_2019_03_22)}
        /\ c["budget"] \in {Unset, IntV(1000)} }

NotCalled == [done |-> FALSE, list |-> <<>>]

InitValidate ==
    /\ IdleMain /\ IdleAuth /\ IdleDate
    /\ padYear \in BOOLEAN
    /\ vrow \in { MappingOf(c) : c \in RowChoices }
    /\ api_data \in { MappingOf(c) : c \in RemoteChoices }
    /\ discrepancies = NotCalled

\* one call of validate_deal (lines 56-101)
ValidateDeal ==
    /\ ~discrepancies.done
    /\ discrepancies' = [done |-> TRUE, list |-> validate_deal(vrow, api_data)]
    /\ UNCHANGED <<mainVars, padYear, authVars, dateVars, vrow, api_data>>

NextValidate == ValidateDeal
SpecValidate == InitValidate /\ [][NextValidate]_vars

(***************************************************************************)
(* Properties of the three functions.                                      *)
(***************************************************************************)
\* the text a side of a check is compared as: empty for a missing, null or
\* absent value, else the value's text, date-normalized for a date check
SideText(v, is_date) ==
    IF v.k \in {"nan", "none"} THEN <<>>
    ELSE IF is_date
         THEN (IF normalize_date(v).k = "none" THEN <<>> ELSE normalize_date(v).s)
         ELSE str(v)

Differs(row, api, i) ==
    SideText(Get(row, checks[i].excel_col), checks[i].is_date)
        # SideText(Get(api, checks[i].api_field), checks[i].is_date)

\* the discrepancies of checks i..5 whose sides differ, in check order
RECURSIVE DiscrepanciesFrom(_, _, _)
DiscrepanciesFrom(row, api, i) ==
    IF i > Len(checks) THEN <<>>
    ELSE (IF Differs(row, api, i)
          THEN << Discrepancy(checks[i].label,
                     SideText(Get(row, checks[i].excel_col), checks[i].is_date),
                     SideText(Get(api, checks[i].api_field), checks[i].is_date)) >>
          ELSE <<>>)
         \o DiscrepanciesFrom(row, api, i + 1)

\* C7: validate_deal returns exactly one Discrepancy per Field Check whose two
\* sides differ as strings, in the order Deal Name, CPM, Start Date, End Date,
\* Budget, and none for a check whose sides are equal, where a missing, null or
\* absent side is the empty string on the row side and on the remote side, for
\* date checks too.
C7_OneDiscrepancyPerMismatch ==
    discrepancies.done =>
        /\ discrepancies.list = DiscrepanciesFrom(vrow, api_data, 1)
        /\ Len(discrepancies.list)
              = Cardinality({i \in 1..Len(checks) : Differs(vrow, api_data, i)})
        /\ \A i \in 1..Len(checks) :
              /\ Get(vrow, checks[i].excel_col).k \in {"nan", "none"}
              /\ \/ Get(api_data, checks[i].api_field) = None
                 \/ Get(api_data, checks[i].api_field) = StrV(<<>>)
              => ~\E j \in 1..Len(discrepancies.list) :
                     StartsWith(discrepancies.list[j], checks[i].label \o <<":">>)

\* row CPM 50 against remote cpm 55, all else agreeing: the one Discrepancy is CPM's
C7_Witness ==
    /\ discrepancies.done
    /\ Get(vrow, CpmCol) = IntV(50) /\ Get(api_data, "cpm") = IntV(55)
    /\ Get(vrow, DealNameCol) = NaN /\ "name" \notin DOMAIN api_data
    /\ discrepancies.list
          = << <<"C","P","M",":"," ","E","x","p","e","c","t","e","d"," ","'","5","0","'",","," ","F","o","u","n","d"," ","'","5","5","'">> >>

\* the number of places at which p occurs in s
Occurrences(s, p) ==
    Cardinality({i \in 1..Len(s) :
                    i + Len(p) - 1 <= Len(s) /\ SubSeq(s, i, i + Len(p) - 1) = p})

\* C8 as stated: for every credential the header holds exactly one "Bearer ",
\* compared case-insensitively.
C8_ExactlyOneBearer ==
    header # <<>> => Occurrences(Lower(header), bearer_lower) = 1

\* C8 amended: the header starts with "Bearer " in some casing; it is the
\* credential unchanged when the credential starts with it, and "Bearer "
\* followed by the credential otherwise; so it holds one occurrence more than
\* the credential when the prefix is added and as many otherwise.
C8_PrefixAddedOnlyWhenMissing ==
    header # <<>> =>
        /\ StartsWith(Lower(header), bearer_lower)
        /\ StartsWith(Lower(auth_token), bearer_lower) => header = auth_token
        /\ ~StartsWith(Lower(auth_token), bearer_lower)
              => header = BearerPrefix \o auth_token
        /\ Occurrences(Lower(header), bearer_lower)
              = Occurrences(Lower(auth_token), bearer_lower)
                + (IF header = auth_token THEN 0 ELSE 1)

\* a credential prefixed in another casing is sent as it is
C8_Witness ==
    /\ header = <<"B","E","A","R","E","R"," ","t","0","k">>
    /\ auth_token = header

\* YYYY-MM-DD by shape: four digits, two digits, two digits, hyphenated
IsCanonicalDate(s) ==
    /\ Len(s) = 10
    /\ \A i \in {1, 2, 3, 4, 6, 7, 9, 10} : IsDigit(s[i])
    /\ s[5] = "-" /\ s[8] = "-"

\* C9 as stated: a canonical string is returned unchanged, a string that is a
\* canonical date D followed by "T" or by a space and more is reduced to D (the
\* part before the first "T" / the first space), a missing input gives the
\* no-value marker, and an unparseable string is returned as it is.
C9_AsStated ==
    normalized # Unset =>
        /\ normalized.k \in {"none", "str"}
        /\ isna(date_obj) <=> normalized = None
        /\ date_obj.k = "str" =>
            /\ IsCanonicalDate(date_obj.s) => normalized = date_obj
            /\ /\ Len(date_obj.s) > 10
               /\ IsCanonicalDate(SubSeq(date_obj.s, 1, 10))
               /\ date_obj.s[11] \in {"T", " "}
               => normalized = StrV(SubSeq(date_obj.s, 1, 10))
            /\ fromisoformat(date_obj.s) = 0 /\ ~HasChar(date_obj.s, "T")
                  /\ ~HasChar(date_obj.s, " ") => normalized = date_obj

\* What normalize_date does instead: "T" is looked for before the space, so a
\* string with a "T" is cut at its first "T", and a string with a space is cut
\* at its first space only when it has no "T"; a canonical string is returned
\* unchanged when its year does not start with 0 or strftime pads the year; a
\* string without "T" or space that parses as an ISO date becomes that date.
C9_TBeforeSpace ==
    normalized # Unset =>
        /\ normalized.k \in {"none", "str"}
        /\ isna(date_obj) <=> normalized = None
        /\ date_obj.k = "str" =>
            /\ IsCanonicalDate(date_obj.s) /\ (date_obj.s[1] # "0" \/ padYear)
                  => normalized = date_obj
            /\ HasChar(date_obj.s, "T")
                  => normalized = StrV(SplitFirst(date_obj.s, "T"))
            /\ HasChar(date_obj.s, " ") /\ ~HasChar(date_obj.s, "T")
                  => normalized = StrV(SplitFirst(date_obj.s, " "))
            /\ /\ Len(date_obj.s) > 10
               /\ IsCanonicalDate(SubSeq(date_obj.s, 1, 10))
               /\ \/ date_obj.s[11] = "T"
                  \/ date_obj.s[11] = " " /\ ~HasChar(date_obj.s, "T")
               => normalized = StrV(SubSeq(date_obj.s, 1, 10))
            /\ fromisoformat(date_obj.s) = 0 /\ ~HasChar(date_obj.s, "T")
                  /\ ~HasChar(date_obj.s, " ") => normalized = date_obj
            /\ fromisoformat(date_obj.s) # 0 /\ ~HasChar(date_obj.s, "T")
                  /\ ~HasChar(date_obj.s, " ")
                  /\ (date_obj.s[1] # "0" \/ padYear)
                  => normalized = StrV(SubSeq(date_obj.s, 1, 10))

\* "2026-02-01 00:00:00 UTC" has been cut at the "T" of "UTC"
C9_CutAtZoneName ==
    /\ date_obj = StrV(D_2026_02_01 \o <<" ">> \o T_00_00_00_UTC)
    /\ normalized = StrV(D_2026_02_01 \o <<" ">> \o T_00_00_00 \o <<" ", "U">>)

(***************************************************************************)
(* main: the run over a sheet.                                             *)
(***************************************************************************)
DealIdCol == <<"D","e","a","l"," ","I","D">>
StatusCol == <<"S","t","a","t","u","s">>
CommentsCol == <<"C","o","m","m","e","n","t","s">>

\* the header row that lines 114-129 settle on: the expected one, one whose
\* identifier cell needs stripping, and one that names the identifier in
\* another casing (found by the case-insensitive scan of line 120)
Headers ==
    { <<DealIdCol, DealNameCol, CpmCol, StartDateCol, EndDateCol, BudgetCol>>,
      <<<<" ","D","e","a","l"," ","I","D","\n">>, DealNameCol, CpmCol>>,
      <<<<"d","e","a","l"," ","i","d">>, DealNameCol, CpmCol>> }

IdCells == { NaN, StrV(<<>>), StrV(<<" ", "\t">>), StrV(<<"D", "1">>), IntV(7) }

FieldCells ==
    { <<StrV(<<"A">>), IntV(50), TsV(20260201), StrV(D_2019_03_22), IntV(1000)>>,
      <<NaN, NaN, NaN, NaN, NaN>> }

DataRows(h) == { <<id>> \o SubSeq(f, 1, Len(h) - 1) : id \in IdCells, f \in FieldCells }

ExcelFiles ==
    { NoFile }
    \cup UNION { { [readable |-> TRUE, header |-> h, data |-> d] :
                      d \in UNION { [1..k -> DataRows(h)] : k \in 0..MaxRows } } :
                  h \in Headers }

\* a parsed JSON body: an object with its fields, or an array of `size` items, or null
ObjectBody(f) == [t |-> "object", rec |-> f, size |-> Cardinality(DOMAIN f)]
ArrayBody(n) == [t |-> "array", rec |-> [x \in {} |-> None], size |-> n]
NullBody == [t |-> "null", rec |-> [x \in {} |-> None], size |-> 0]

MatchingRecord ==
    ("name" :> StrV(<<"A">>)) @@ ("cpm" :> IntV(50))
    @@ ("startDate" :> StrV(Z_2026_02_01)) @@ ("endDate" :> StrV(Z_2019_03_22))
    @@ ("budget" :> IntV(1000))
MismatchingRecord ==
    ("name" :> StrV(<<"B">>)) @@ ("cpm" :> IntV(55))
    @@ ("startDate" :> StrV(Z_2026_02_01)) @@ ("endDate" :> StrV(Z_2019_03_22))
    @@ ("budget" :> IntV(1000))

Bodies ==
    { ObjectBody(MatchingRecord), ObjectBody(MismatchingRecord),
      ObjectBody([x \in {} |-> None]), ArrayBody(1), ArrayBody(0), NullBody }

\* the text of the RequestException of a failed fetch
ErrorTexts == { <<"t","i","m","e","d"," ","o","u","t">>, <<"4","0","4"," ","C","l","i","e","n","t"," ","E","r","r","o","r">> }

\* get_deal_details' return value, lines 48-54: the body, None for a failed fetch
get_deal_details(res) == IF res.ok THEN res.body ELSE NullBody

\* bool(api_data) at line 159
Truthy(api) ==
    CASE api.t = "object" -> DOMAIN api.rec # {}
      [] api.t = "array" -> api.size > 0
      [] api.t = "null" -> FALSE

\* line 160 raises AttributeError: api_data.get on a value that is no dict
Raises(api) == Truthy(api) /\ api.t # "object"

ApiRequestFailed == <<"A","P","I"," ","R","e","q","u","e","s","t"," ","F","a","i","l","e","d">>

\* a faulty variant of lines 156-174: only the first issue kept in the comments
RowOutcomeFirstIssue(deal_id, row, api) ==
    IF Truthy(api)
    THEN IF validate_deal(row, api.rec) = <<>>
         THEN [deal_id |-> deal_id, status |-> "PASS", comments |-> <<>>]
         ELSE [deal_id |-> deal_id, status |-> "FAIL",
               comments |-> validate_deal(row, api.rec)[1]]
    ELSE [deal_id |-> deal_id, status |-> "ERROR", comments |-> ApiRequestFailed]

\* the dict appended to results, lines 156-174
RowOutcome(deal_id, row, api) ==
    IF Truthy(api)
    THEN IF validate_deal(row, api.rec) = <<>>
         THEN [deal_id |-> deal_id, status |-> "PASS", comments |-> <<>>]
         ELSE [deal_id |-> deal_id, status |-> "FAIL",
               comments |-> Join(<<";", " ">>, validate_deal(row, api.rec))]
    ELSE [deal_id |-> deal_id, status |-> "ERROR", comments |-> ApiRequestFailed]

\* the test of line 149
IsSkipped(deal_id) == isna(deal_id) \/ Strip(str(deal_id)) = <<>>

\* pd.DataFrame(results): no columns at all for an empty list
DataFrame(list) ==
    [written |-> TRUE,
     columns |-> IF list = <<>> THEN <<>> ELSE <<DealIdCol, StatusCol, CommentsCol>>,
     rows |-> list]

InitMain ==
    /\ IdleAuth /\ IdleDate /\ IdleValidate
    /\ padYear \in BOOLEAN
    /\ pc = "start"
    /\ excel_file \in ExcelFiles
    /\ columns = <<>> /\ rows = <<>> /\ idx = 0
    /\ results = <<>> /\ fetched = <<>> /\ requests = <<>> /\ inFlight = 0
    /\ report = NoReport /\ exitCode = -1

otherVars == <<padYear, authVars, dateVars, validateVars>>

\* lines 112-133: pd.read_excel raises, the run exits with status 1
ReadFails ==
    /\ pc = "start" /\ ~excel_file.readable
    /\ pc' = "exit1" /\ exitCode' = 1
    /\ UNCHANGED <<excel_file, columns, rows, idx, results, fetched, requests,
                   inFlight, report, otherVars>>

StrippedColumns == [i \in 1..Len(excel_file.header) |-> Strip(excel_file.header[i])]

\* lines 112-145: the file is read, the headers stripped, no 'Deal ID' among them
ColumnMissing ==
    /\ pc = "start" /\ excel_file.readable
    /\ ~\E i \in 1..Len(StrippedColumns) : StrippedColumns[i] = DealIdCol
    /\ columns' = StrippedColumns
    /\ pc' = "exit1" /\ exitCode' = 1
    /\ UNCHANGED <<excel_file, rows, idx, results, fetched, requests,
                   inFlight, report, otherVars>>

\* lines 112-146: the file is read, the headers stripped, the loop is entered
Load ==
    /\ pc = "start" /\ excel_file.readable
    /\ \E i \in 1..Len(StrippedColumns) : StrippedColumns[i] = DealIdCol
    /\ columns' = StrippedColumns
    /\ rows' = [r \in 1..Len(excel_file.data) |->
                  [name \in {StrippedColumns[i] : i \in 1..Len(StrippedColumns)} |->
                      excel_file.data[r][CHOOSE i \in 1..Len(StrippedColumns) :
                                             StrippedColumns[i] = name]]]
    /\ idx' = 1
    /\ pc' = "loop"
    /\ UNCHANGED <<excel_file, results, fetched, requests, inFlight, report,
                   exitCode, otherVars>>

\* lines 147-150: a row without identifier is passed over
SkipRow ==
    /\ pc = "loop" /\ idx <= Len(rows)
    /\ IsSkipped(Get(rows[idx], DealIdCol))
    /\ idx' = idx + 1
    /\ UNCHANGED <<pc, excel_file, columns, rows, results, fetched, requests,
                   inFlight, report, exitCode, otherVars>>

\* lines 147-154, 35-49: the GET request for the row is sent
SendRequest ==
    /\ pc = "loop" /\ idx <= Len(rows)
    /\ ~IsSkipped(Get(rows[idx], DealIdCol))
    /\ requests' = Append(requests, [row |-> idx, deal_id |-> Get(rows[idx], DealIdCol)])
    /\ inFlight' = inFlight + 1
    /\ pc' = "awaiting"
    /\ UNCHANGED <<excel_file, columns, rows, idx, results, fetched, report,
                   exitCode, otherVars>>

\* lines 49-54, 156-174: the request has ended with `res`; the comparison raises
\* and ends the run, or the row's outcome is appended and the loop goes on
Completed(res) ==
    /\ inFlight' = inFlight - 1
    /\ fetched' = Append(fetched, [row |-> idx, res |-> res])
    /\ IF Raises(get_deal_details(res))
       THEN /\ pc' = "crashed" /\ exitCode' = 1
            /\ UNCHANGED <<results, idx>>
       ELSE /\ results' = Append(results,
                             RowOutcome(Get(rows[idx], DealIdCol), rows[idx],
                                        get_deal_details(res)))
            /\ idx' = idx + 1
            /\ pc' = "loop"
            /\ UNCHANGED exitCode
    /\ UNCHANGED <<excel_file, columns, rows, requests, report, otherVars>>

\* a transport error or a non-2xx status: RequestException, caught at line 52
FetchFails ==
    /\ pc = "awaiting"
    /\ \E e \in ErrorTexts : Completed([ok |-> FALSE, err |-> e, body |-> NullBody])

\* a 2xx response whose body parses as JSON
FetchReturns ==
    /\ pc = "awaiting"
    /\ \E b \in Bodies : Completed([ok |-> TRUE, err |-> <<>>, body |-> b])

\* lines 176-179: the report is written and the run ends with status 0
WriteReport ==
    /\ pc = "loop" /\ idx > Len(rows)
    /\ report' = DataFrame(results)
    /\ pc' = "done" /\ exitCode' = 0
    /\ UNCHANGED <<excel_file, columns, rows, idx, results, fetched, requests,
                   inFlight, otherVars>>

Next ==
    \/ ReadFails
    \/ ColumnMissing
    \/ Load
    \/ SkipRow
    \/ SendRequest
    \/ FetchFails
    \/ FetchReturns
    \/ WriteReport

Spec == InitMain /\ [][Next]_vars


(***************************************************************************)
(* Properties of the run.                                                  *)
(***************************************************************************)
\* an identifier cell that is missing, empty, or blank once trimmed
Blank(v) ==
    \/ v.k \in {"nan", "none"}
    \/ v.k = "str" /\ \A i \in 1..Len(v.s) : v.s[i] \in {" ", "\t", "\n"}

\* the file loads: it can be read and some header is 'Deal ID' once trimmed
Loads ==
    /\ excel_file.readable
    /\ \E i \in 1..Len(excel_file.header) :
          \E a, b \in 0..Len(excel_file.header[i]) :
             /\ excel_file.header[i]
                   = [x \in 1..a |-> excel_file.header[i][x]] \o DealIdCol
                     \o [x \in 1..b |-> excel_file.header[i][Len(excel_file.header[i]) - b + x]]
             /\ \A x \in 1..a : IsSpaceCh(excel_file.header[i][x])
             /\ \A x \in 1..b :
                   IsSpaceCh(excel_file.header[i][Len(excel_file.header[i]) - b + x])

\* the data rows of the file with an identifier, in sheet order
RECURSIVE NonSkippedFrom(_)
NonSkippedFrom(i) ==
    IF i > Len(excel_file.data) THEN <<>>
    ELSE (IF Blank(excel_file.data[i][1]) THEN <<>> ELSE <<i>>) \o NonSkippedFrom(i + 1)

Ended == pc \in {"done", "exit1", "crashed"}

\* the outcomes appended for row i
OutcomesOf(i) == {j \in 1..Len(results) : fetched[j].row = i}

\* C1: an emitted Outcome is ERROR iff the row's fetch failed, FAIL iff it
\* succeeded and some Field Check mismatched, PASS iff it succeeded and none
\* did, for a failed fetch and for every JSON object a fetch returns, the
\* object without fields included; SKIPPED is never emitted.
C1_StatusFollowsFetch ==
    \A j \in 1..Len(results) :
        LET res == fetched[j].res
            row == rows[fetched[j].row]
            mismatch == \E i \in 1..Len(checks) : Differs(row, res.body.rec, i)
        IN  (res.ok => res.body.t = "object") =>
                /\ results[j].status = "ERROR" <=> ~res.ok
                /\ results[j].status = "FAIL" <=> (res.ok /\ mismatch)
                /\ results[j].status = "PASS" <=> (res.ok /\ ~mismatch)
                /\ results[j].status # "SKIPPED"

\* C2: when the run over a loaded sheet has ended, a row has no Outcome iff its
\* identifier is missing, empty or blank, and every other row has exactly one.
C2_OutcomeIffIdentifier ==
    pc \in {"done", "crashed"} =>
        \A i \in 1..Len(rows) :
            Cardinality(OutcomesOf(i))
                = IF Blank(excel_file.data[i][1]) THEN 0 ELSE 1

\* C3: the written report has the columns Deal ID, Status, Comments and one row
\* per input row with an identifier, in input order, for every sheet that
\* loads, a sheet whose rows are all skipped included.
C3_ReportShape ==
    report.written =>
        /\ report.columns = <<DealIdCol, StatusCol, CommentsCol>>
        /\ Len(report.rows) = Len(NonSkippedFrom(1))
        /\ \A j \in 1..Len(report.rows) :
              report.rows[j].deal_id = excel_file.data[NonSkippedFrom(1)[j]][1]

\* C4: once the sheet has loaded no result of a row's fetch or comparison ends
\* the run: it is in the loop, or it has gone through every row and written
\* the report.
C4_NoRowEndsTheRun ==
    Loads /\ pc # "start" =>
        \/ pc \in {"loop", "awaiting"}
        \/ pc = "done" /\ report.written /\ idx > Len(rows)

\* C5: a file that cannot be read or has no 'Deal ID' column ends the run with
\* a non-zero status, no request sent and nothing written; every other run
\* ends with the report written and status 0.
C5_ExitStatus ==
    /\ ~Loads => requests = <<>> /\ ~report.written
    /\ Ended =>
          IF Loads THEN report.written /\ exitCode = 0
          ELSE exitCode > 0 /\ ~report.written /\ requests = <<>>

\* C6 as stated: the comments are the row's Discrepancies joined by semicolons
\* for FAIL, the error text of the row's failed fetch for ERROR, empty for PASS.
C6_CommentsAsStated ==
    \A j \in 1..Len(results) :
        LET res == fetched[j].res
            row == rows[fetched[j].row]
        IN  /\ results[j].status = "FAIL" =>
                  results[j].comments
                      = Join(<<";", " ">>, DiscrepanciesFrom(row, res.body.rec, 1))
            /\ results[j].status = "ERROR" /\ ~res.ok =>
                  results[j].comments = res.err
            /\ results[j].status = "PASS" => results[j].comments = <<>>

\* C6 amended: the comments are the row's Discrepancies joined by "; " in Field
\* Check order for FAIL, the fixed text "API Request Failed" for ERROR whatever
\* the error was, empty for PASS.
C6_CommentsByStatus ==
    \A j \in 1..Len(results) :
        LET res == fetched[j].res
            row == rows[fetched[j].row]
        IN  /\ results[j].status \in {"PASS", "FAIL", "ERROR"}
            /\ results[j].status = "FAIL" =>
                  results[j].comments
                      = Join(<<";", " ">>, DiscrepanciesFrom(row, res.body.rec, 1))
            /\ results[j].status = "ERROR" =>
                  results[j].comments = <<"A","P","I"," ","R","e","q","u","e","s","t"," ","F","a","i","l","e","d">>
            /\ results[j].status = "PASS" => results[j].comments = <<>>

\* a FAIL outcome with two discrepancies and an ERROR outcome of a failed fetch
C6_Witness ==
    \E j, k \in 1..Len(results) :
        /\ results[j].status = "FAIL"
        /\ Len(DiscrepanciesFrom(rows[fetched[j].row], fetched[j].res.body.rec, 1)) = 2
        /\ results[k].status = "ERROR" /\ ~fetched[k].res.ok

\* C10: one GET request per row with an identifier and none for a skipped
\* row, in input order, each completed and its Outcome appended before the
\* next is sent, at most one in flight.
C10_OneRequestPerRow ==
    /\ inFlight <= 1
    /\ \A a, b \in 1..Len(requests) : a < b => requests[a].row < requests[b].row
    /\ \A a \in 1..Len(requests) : ~Blank(excel_file.data[requests[a].row][1])
    /\ pc = "awaiting" => inFlight = 1 /\ Len(results) = Len(requests) - 1
    /\ pc = "loop" => inFlight = 0 /\ Len(results) = Len(requests)
    /\ pc \in {"done", "crashed"} =>
          \A i \in 1..Len(rows) :
              Cardinality({a \in 1..Len(requests) : requests[a].row = i})
                  = IF Blank(excel_file.data[i][1]) THEN 0 ELSE 1

====
